---- MODULE Spec2Model ----
(***************************************************************************)
(* Model of load_data.py: the cover lookup get_book_cover behind its       *)
(* st.cache_data(ttl=86400) memoisation, the shelf renderer                *)
(* render_bookshelf, and the year/month aggregations of the dashboard      *)
(* script.                                                                 *)
(*                                                                         *)
(* Python strings are sequences of one-character strings, so that          *)
(* str.startswith and str.replace are computed character by character.     *)
(* Python values are tagged records: None, NaN, or a str.                  *)
(***************************************************************************)
EXTENDS Integers, Sequences, FiniteSets, TLC

VARIABLES
    now,            \* wall clock, in seconds (what ttl=86400 of line 33 is measured by)
    cache,          \* line 33: st.cache_data store of get_book_cover, isbn -> entry
    last,           \* lines 34-54: the most recent call of get_book_cover: its argument,
                    \* its time, the answers to the requests it issued, and its result
    book_isbns,     \* line 57: argument of the running render_bookshelf
    cover_urls,     \* line 78: cover_url of each finished loop iteration
    cover_images,   \* line 74: the list render_bookshelf builds
    pc,             \* lines 57-86: position in render_bookshelf
    shelf,          \* line 86: the list handed to st.image
    data,           \* line 90: the dataframe, one row per read book
    read_year,      \* lines 94, 192: column data['read_year']
    read_month,     \* line 193: column data['read_month']
    years,          \* lines 103-104, 194: options of the year selectbox
    selected_year,  \* lines 105, 197: value of the year selectbox
    filtered_data,  \* lines 108-111, 198: row numbers of data kept by the year filter
    books_per_year, \* line 172: groupby('read_year').size(), a sequence of <<year, count>>
    books_per_month,\* line 201: groupby('read_month').size(), a sequence of <<month, count>>
    line            \* position in the dashboard script

shelfVars == <<now, cache, last, book_isbns, cover_urls, cover_images, pc, shelf>>
dashVars == <<data, read_year, read_month, years, selected_year, filtered_data,
              books_per_year, books_per_month, line>>
vars == <<shelfVars, dashVars>>

----------------------------------------------------------------------------
(* Bounds of the model                                                     *)

MaxHalfDays == 3
MaxShelf == 2
MaxItems == 2
MaxRows == 3

----------------------------------------------------------------------------
(* Python values and strings                                               *)

None == [t |-> "None"]
NaN == [t |-> "nan"]
Str(s) == [t |-> "str", s |-> s]

isna(v) == v.t \in {"None", "nan"}

Truthy(v) == v.t = "str" /\ v.s # <<>>

startswith(s, prefix) ==
    Len(s) >= Len(prefix) /\ SubSeq(s, 1, Len(prefix)) = prefix

RECURSIVE replace(_, _, _)
replace(s, old, new) ==
    IF s = <<>> THEN <<>>
    ELSE IF startswith(s, old)
         THEN new \o replace(SubSeq(s, Len(old) + 1, Len(s)), old, new)
         ELSE <<Head(s)>> \o replace(Tail(s), old, new)

HTTP == <<"h","t","t","p",":">>
HTTPS == <<"h","t","t","p","s",":">>

PLACEHOLDER == Str(<<"h","t","t","p","s",":","/","/","v","i","a",".","p","l","a","c","e","h","o","l","d","e","r",".","c","o","m","/","1","2","0","x","1","8","0",".","p","n","g","?","t","e","x","t","=","N","o","+","C","o","v","e","r">>)

----------------------------------------------------------------------------
(* The inputs: identifiers and answers of the catalog service              *)

ISBN_123 == Str(<<"1","2","3">>)
ISBN_EMPTY == Str(<<>>)
Identifiers == {NaN, ISBN_EMPTY, ISBN_123}

U_HTTP == <<"h","t","t","p",":","/","/","x","/","y",".","j","p","g">>
U_HTTPS == <<"h","t","t","p","s",":","/","/","x","/","z",".","j","p","g">>
U_INNER == <<"h","t","t","p",":","/","/","x","/","r","?","u","=","h","t","t","p",":","/","/","z">>
Thumbnails == {U_HTTP, U_HTTPS, U_INNER, <<>>}

\* One element of the "items" list of the service's JSON answer.
Items ==
    {[volumeInfo |-> FALSE]}
    \cup {[volumeInfo |-> TRUE, imageLinks |-> FALSE]}
    \cup {[volumeInfo |-> TRUE, imageLinks |-> TRUE, thumbnail |-> None]}
    \cup {[volumeInfo |-> TRUE, imageLinks |-> TRUE, thumbnail |-> Str(u)] : u \in Thumbnails}

ItemLists == UNION {[1..n -> Items] : n \in 0..MaxItems}

Payloads ==
    {[json |-> FALSE]}
    \cup {[json |-> TRUE, hasItems |-> FALSE]}
    \cup {[json |-> TRUE, hasItems |-> TRUE, items |-> l] : l \in ItemLists}

\* What requests.get does: it raises, or it returns a response.
Responses ==
    {[received |-> FALSE]}
    \cup {[received |-> TRUE, status_code |-> s, payload |-> [json |-> FALSE]] : s \in {404, 500}}
    \cup {[received |-> TRUE, status_code |-> 200, payload |-> p] : p \in Payloads}

\* The answers that carry at most one item: get_book_cover reads items[0] only.
Answers ==
    {r \in Responses :
        (r.received /\ r.status_code = 200 /\ r.payload.json /\ r.payload.hasItems)
            => Len(r.payload.items) <= 1}


----------------------------------------------------------------------------
(* get_book_cover, lines 34-54                                             *)

Return(v, n) == [outcome |-> "return", value |-> v, requests |-> n]
Raise(e, n) == [outcome |-> "raise", value |-> Str(e), requests |-> n]

MutNoRewrite(cover_url) == cover_url

\* lines 47-49
EnsureHttps(cover_url) ==
    IF Truthy(cover_url) /\ startswith(cover_url.s, HTTP)
    THEN Str(replace(cover_url.s, HTTP, HTTPS))
    ELSE cover_url

MutPickLast(items) == items[Len(items)]

\* line 44, the item the cover is read from
PickItem(items) == items[1]

\* lines 44-45
Thumbnail(item) ==
    IF item.imageLinks THEN item.thumbnail ELSE None

\* lines 42-54, given the response of line 38
ReadResponse(response) ==
    IF ~response.received THEN Raise(<<"ConnectionError">>, 1)
    ELSE IF response.status_code # 200 THEN Return(None, 1)
    ELSE IF ~response.payload.json THEN Raise(<<"JSONDecodeError">>, 1)
    ELSE IF ~response.payload.hasItems THEN Return(None, 1)
    ELSE IF response.payload.items = <<>> THEN Raise(<<"IndexError">>, 1)
    ELSE IF ~PickItem(response.payload.items).volumeInfo THEN Raise(<<"KeyError">>, 1)
    ELSE Return(EnsureHttps(Thumbnail(PickItem(response.payload.items))), 1)

MutNoLookupNever(isbn) == FALSE

\* line 35
NoLookup(isbn) == isna(isbn)

\* the undecorated function body
BookCover(isbn, response) ==
    IF NoLookup(isbn) THEN Return(None, 0) ELSE ReadResponse(response)

----------------------------------------------------------------------------
(* st.cache_data(ttl=86400), line 33                                       *)

TTL == 86400
HalfDay == TTL \div 2

NoEntry == [t |-> "absent"]
Entry(v, at) == [t |-> "entry", value |-> v, stored |-> at]

MutFreshHours(e, t) == e.t = "entry" /\ t < e.stored + 24

\* an entry is served while the clock is before its expiry
Fresh(e, t) == e.t = "entry" /\ t < e.stored + TTL

MutStoreSkipNone(c, isbn, r, t) ==
    IF r.outcome = "return" /\ r.value # None
    THEN [c EXCEPT ![isbn] = Entry(r.value, t)] ELSE c

\* only a call that returns is stored; a raising call leaves the store as it was
Store(c, isbn, r, t) ==
    IF r.outcome = "return" THEN [c EXCEPT ![isbn] = Entry(r.value, t)] ELSE c

\* the decorated get_book_cover called with isbn while the service would answer response
GetBookCover(isbn, response) ==
    IF Fresh(cache[isbn], now)
    THEN /\ last' = [isbn |-> isbn, at |-> now, answers |-> <<>>,
                     result |-> Return(cache[isbn].value, 0)]
         /\ cache' = cache
    ELSE LET r == BookCover(isbn, response) IN
         /\ last' = [isbn |-> isbn, at |-> now,
                     answers |-> IF r.requests = 0 THEN <<>> ELSE <<response>>,
                     result |-> r]
         /\ cache' = Store(cache, isbn, r, now)

----------------------------------------------------------------------------
(* render_bookshelf, lines 57-86                                           *)

MutNoPlaceholder(cover_url) == cover_url

\* lines 79-83
CoverOrPlaceholder(cover_url) ==
    IF Truthy(cover_url) THEN cover_url ELSE PLACEHOLDER

IsbnLists == UNION {[1..n -> Identifiers] : n \in 0..MaxShelf}

\* lines 57-74: the call, up to the empty list
RenderBookshelf ==
    /\ pc \in {"idle", "shown", "raised"}
    /\ \E l \in IsbnLists : book_isbns' = l
    /\ cover_urls' = <<>>
    /\ cover_images' = <<>>
    /\ pc' = "loop"
    /\ UNCHANGED <<now, cache, last, shelf>>

\* lines 77-83: one iteration of the loop
LoopIteration ==
    /\ pc = "loop"
    /\ Len(cover_images) < Len(book_isbns)
    /\ \E response \in Answers :
          GetBookCover(book_isbns[Len(cover_images) + 1], response)
    /\ IF last'.result.outcome = "return"
       THEN /\ cover_urls' = Append(cover_urls, last'.result.value)
            /\ cover_images' = Append(cover_images, CoverOrPlaceholder(last'.result.value))
            /\ pc' = "loop"
       ELSE /\ pc' = "raised"
            /\ UNCHANGED <<cover_urls, cover_images>>
    /\ UNCHANGED <<now, book_isbns, shelf>>

\* line 86
ShowImages ==
    /\ pc = "loop"
    /\ Len(cover_images) = Len(book_isbns)
    /\ shelf' = cover_images
    /\ pc' = "shown"
    /\ UNCHANGED <<now, cache, last, book_isbns, cover_urls, cover_images>>

\* the clock advances
Tick ==
    /\ now + HalfDay <= MaxHalfDays * HalfDay
    /\ now' = now + HalfDay
    /\ UNCHANGED <<cache, last, book_isbns, cover_urls, cover_images, pc, shelf>>

NoCall == [isbn |-> None, at |-> -1, answers |-> <<>>, result |-> Return(None, 0)]

ShelfInit ==
    /\ now = 0
    /\ cache = [i \in Identifiers |-> NoEntry]
    /\ last = NoCall
    /\ book_isbns = <<>>
    /\ cover_urls = <<>>
    /\ cover_images = <<>>
    /\ pc = "idle"
    /\ shelf = <<>>


\* a call of get_book_cover with any identifier, the service answering from R
Call(R) ==
    /\ \E isbn \in Identifiers, response \in R : GetBookCover(isbn, response)
    /\ UNCHANGED <<now, book_isbns, cover_urls, cover_images, pc, shelf>>

CallAnswered == Call(Answers)

CallAny == Call(Responses)

----------------------------------------------------------------------------
(* The dashboard script: the date-derived columns and aggregations,        *)
(* lines 90-111 and 172-201                                                *)

Num(n) == [t |-> "num", n |-> n]
NaT == [t |-> "NaT"]
Date(y, m) == [t |-> "date", year |-> y, month |-> m]

ALL_YEARS == Str(<<"A","l","l"," ","y","e","a","r","s">>)

\* values of the column 'last date read' after pd.to_datetime(errors='coerce')
Dates == {NaT} \cup {Date(y, m) : y \in {2023, 2024}, m \in {1, 12}}
Datasets == UNION {[1..n -> [last_date_read : Dates]] : n \in 0..MaxRows}

Rows(d) == 1..Len(d)

\* Series.dt.year and Series.dt.month: NaN where the date is NaT
DtYear(d) == [i \in Rows(d) |->
                IF d[i].last_date_read.t = "NaT" THEN NaN ELSE Num(d[i].last_date_read.year)]
DtMonth(d) == [i \in Rows(d) |->
                IF d[i].last_date_read.t = "NaT" THEN NaN ELSE Num(d[i].last_date_read.month)]

\* Series.dropna().unique(), over the rows in rs
DropNaUnique(col, rs) == {col[i] : i \in rs} \ {NaN}

MutGroupKeysKeepNaN(col, rs) == {col[i] : i \in rs}

\* the keys groupby keeps: NaN keys are dropped (dropna=True is the default)
GroupKeys(col, rs) == {col[i] : i \in rs} \ {NaN}

\* the order of sorted keys: numbers ascending, NaN last
Leq(x, y) == y.t = "nan" \/ (x.t = "num" /\ y.t = "num" /\ x.n <= y.n)

RECURSIVE Ascending(_)
Ascending(S) ==
    IF S = {} THEN <<>>
    ELSE LET lo == CHOOSE x \in S : \A y \in S : Leq(x, y)
         IN <<lo>> \o Ascending(S \ {lo})

RECURSIVE Reversed(_)
Reversed(s) == IF s = <<>> THEN <<>> ELSE Append(Reversed(Tail(s)), Head(s))

\* sorted(..., reverse=True)
SortedReverse(S) == Reversed(Ascending(S))

\* elementwise ==: NaN and None compare unequal to everything
SeriesEq(col, rs, v) == {i \in rs : col[i].t = "num" /\ col[i] = v}

\* DataFrame.groupby(col).size(): one <<key, count>> per key, keys ascending
GroupSize(col, rs) ==
    LET keys == Ascending(GroupKeys(col, rs))
    IN [k \in 1..Len(keys) |-> <<keys[k], Cardinality({i \in rs : col[i] = keys[k]})>>]

\* line 90: the rows load_data returns
LoadData ==
    /\ line = "load"
    /\ \E d \in Datasets : data' = d
    /\ line' = "94"
    /\ UNCHANGED <<read_year, read_month, years, selected_year, filtered_data,
                   books_per_year, books_per_month>>

\* line 94
DeriveYear ==
    /\ line = "94"
    /\ read_year' = DtYear(data)
    /\ line' = "103"
    /\ UNCHANGED <<data, read_month, years, selected_year, filtered_data,
                   books_per_year, books_per_month>>

\* lines 103-104
YearOptions ==
    /\ line = "103"
    /\ years' = <<ALL_YEARS>> \o SortedReverse(DropNaUnique(read_year, Rows(data)))
    /\ line' = "105"
    /\ UNCHANGED <<data, read_year, read_month, selected_year, filtered_data,
                   books_per_year, books_per_month>>

\* line 105: the user picks one of the options
SelectYear ==
    /\ line = "105"
    /\ \E k \in 1..Len(years) : selected_year' = years[k]
    /\ line' = "108"
    /\ UNCHANGED <<data, read_year, read_month, years, filtered_data,
                   books_per_year, books_per_month>>

\* lines 108-111
FilterYear ==
    /\ line = "108"
    /\ filtered_data' = IF selected_year # ALL_YEARS
                        THEN SeriesEq(read_year, Rows(data), selected_year)
                        ELSE Rows(data)
    /\ line' = "172"
    /\ UNCHANGED <<data, read_year, read_month, years, selected_year,
                   books_per_year, books_per_month>>

\* line 172
BooksPerYear ==
    /\ line = "172"
    /\ books_per_year' = GroupSize(read_year, Rows(data))
    /\ line' = "192"
    /\ UNCHANGED <<data, read_year, read_month, years, selected_year, filtered_data,
                   books_per_month>>

\* lines 192-194
DerivePace ==
    /\ line = "192"
    /\ read_year' = DtYear(data)
    /\ read_month' = DtMonth(data)
    /\ years' = SortedReverse(DropNaUnique(DtYear(data), Rows(data)))
    /\ line' = "197"
    /\ UNCHANGED <<data, selected_year, filtered_data, books_per_year, books_per_month>>

\* lines 197-198: the user picks a year (None when there is none to pick), then the filter
SelectPace ==
    /\ line = "197"
    /\ \/ \E k \in 1..Len(years) : selected_year' = years[k]
       \/ years = <<>> /\ selected_year' = None
    /\ filtered_data' = SeriesEq(read_year, Rows(data), selected_year')
    /\ line' = "201"
    /\ UNCHANGED <<data, read_year, read_month, years, books_per_year, books_per_month>>

\* line 201
BooksPerMonth ==
    /\ line = "201"
    /\ books_per_month' = GroupSize(read_month, filtered_data)
    /\ line' = "done"
    /\ UNCHANGED <<data, read_year, read_month, years, selected_year, filtered_data,
                   books_per_year>>

DashInit ==
    /\ data = <<>>
    /\ read_year = <<>>
    /\ read_month = <<>>
    /\ years = <<>>
    /\ selected_year = None
    /\ filtered_data = {}
    /\ books_per_year = <<>>
    /\ books_per_month = <<>>
    /\ line = "load"

----------------------------------------------------------------------------
(* Specifications                                                          *)

Init == ShelfInit /\ DashInit

\* get_book_cover called over time, the service answering with at most one item
Next ==
    \/ CallAnswered /\ UNCHANGED dashVars
    \/ Tick /\ UNCHANGED dashVars

Spec == Init /\ [][Next]_vars

\* get_book_cover called with every response of the service
NextLookup == CallAny /\ UNCHANGED dashVars

SpecLookup == Init /\ [][NextLookup]_vars

\* render_bookshelf called again and again
NextShelf ==
    \/ RenderBookshelf /\ UNCHANGED dashVars
    \/ LoopIteration /\ UNCHANGED dashVars
    \/ ShowImages /\ UNCHANGED dashVars

SpecShelf == Init /\ [][NextShelf]_vars

\* one run of the dashboard script
NextDash ==
    \/ LoadData /\ UNCHANGED shelfVars
    \/ DeriveYear /\ UNCHANGED shelfVars
    \/ YearOptions /\ UNCHANGED shelfVars
    \/ SelectYear /\ UNCHANGED shelfVars
    \/ FilterYear /\ UNCHANGED shelfVars
    \/ BooksPerYear /\ UNCHANGED shelfVars
    \/ DerivePace /\ UNCHANGED shelfVars
    \/ SelectPace /\ UNCHANGED shelfVars
    \/ BooksPerMonth /\ UNCHANGED shelfVars

SpecDash == Init /\ [][NextDash]_vars

----------------------------------------------------------------------------
(* Properties                                                              *)

\* 24 hours, in seconds
Window == 24 * 60 * 60

\* this step is a call of get_book_cover with identifier i
Called(i) == last' # last /\ last'.isbn = i

Null(v) == v.t \in {"None", "nan"}

BeginsWith(s, p) == Len(s) >= Len(p) /\ \A k \in 1..Len(p) : s[k] = p[k]

\* C1: a call made less than 24 hours after the resolution that stored the
\* identifier's entry returns the stored value, issues no request and leaves
\* the entry as it is, whatever the service would answer.
C1_CacheHit ==
    [][\A i \in Identifiers :
        (cache[i].t = "entry" /\ now - cache[i].stored < Window /\ Called(i))
        => /\ last'.result.outcome = "return"
           /\ last'.result.value = cache[i].value
           /\ last'.result.requests = 0
           /\ last'.answers = <<>>
           /\ cache'[i] = cache[i]]_vars

\* a call half a day after the resolution was served the stored URL
C1_Witness ==
    /\ last.isbn = ISBN_123
    /\ last.answers = <<>>
    /\ cache[ISBN_123].t = "entry"
    /\ last.at = cache[ISBN_123].stored + Window \div 2
    /\ last.result.value = cache[ISBN_123].value
    /\ last.result.value.t = "str"

\* the service answered with a non-success status, or with a JSON object without "items"
Failure(r) ==
    /\ r.received
    /\ \/ r.status_code # 200
       \/ r.payload.json /\ ~r.payload.hasItems

\* C2: a call that receives a non-success status or a 200 answer without
\* "items" returns null and stores null for the identifier; a call for an
\* identifier whose stored null is less than 24 hours old returns null and
\* issues no request.
C2_FailureCachedAsNull ==
    [][\A i \in Identifiers :
        /\ (Called(i) /\ Len(last'.answers) = 1 /\ Failure(last'.answers[1]))
           => /\ last'.result = [outcome |-> "return", value |-> None, requests |-> 1]
              /\ cache'[i] = [t |-> "entry", value |-> None, stored |-> now]
        /\ (cache[i].t = "entry" /\ cache[i].value = None
               /\ now - cache[i].stored < Window /\ Called(i))
           => /\ last'.result = [outcome |-> "return", value |-> None, requests |-> 0]
              /\ last'.answers = <<>>]_vars

\* a stored null of a real identifier was served half a day later
C2_Witness ==
    /\ last.isbn = ISBN_123
    /\ last.answers = <<>>
    /\ last.result.value = None
    /\ cache[ISBN_123] = [t |-> "entry", value |-> None, stored |-> last.at - Window \div 2]

\* C5: the call that follows an entry older than 24 hours issues exactly one
\* request and stores a fresh entry, for every identifier that is looked up
\* (a string).
C5_StaleReResolvedOnce ==
    [][\A i \in Identifiers \ {NaN} :
        (cache[i].t = "entry" /\ now - cache[i].stored > Window /\ Called(i))
        => /\ last'.result.requests = 1
           /\ cache'[i].t = "entry"
           /\ cache'[i].stored = now]_vars

\* C3: whatever the outcome of the network call, get_book_cover ends by
\* returning null or a URL, never by raising to its caller.
C3_NeverRaises == last.result.outcome = "return"

\* the call issued a request and the thumbnail of the first item of the answer is a string
HasFirstThumbnail(c) ==
    /\ Len(c.answers) = 1
    /\ c.answers[1].received
    /\ c.answers[1].status_code = 200
    /\ c.answers[1].payload.json
    /\ c.answers[1].payload.hasItems
    /\ Len(c.answers[1].payload.items) >= 1
    /\ c.answers[1].payload.items[1].volumeInfo
    /\ c.answers[1].payload.items[1].imageLinks
    /\ c.answers[1].payload.items[1].thumbnail.t = "str"

FirstThumbnail(c) == c.answers[1].payload.items[1].thumbnail.s

\* C4 as stated: for a null and for an empty-string identifier the call
\* returns null and issues no request (stated of the calls that return,
\* raising calls being the matter of C3).
C4_NullOrEmptyNoRequest ==
    (last.at >= 0 /\ (Null(last.isbn) \/ last.isbn = Str(<<>>))
        /\ last.result.outcome = "return")
    => /\ last.result.value = None
       /\ last.result.requests = 0
       /\ last.answers = <<>>

\* C4 amended: for a null identifier the call returns null and issues no
\* request; the empty string is looked up like any other string, with one
\* request when it has no entry.
C4_NullNoRequest ==
    [][\A i \in Identifiers :
        Called(i)
        => /\ Null(i)
              => /\ last'.result = [outcome |-> "return", value |-> None, requests |-> 0]
                 /\ last'.answers = <<>>
           /\ (i = Str(<<>>) /\ cache[i].t = "absent")
              => /\ last'.result.requests = 1
                 /\ Len(last'.answers) = 1]_vars

\* get_book_cover was called with NaN
C4_Witness ==
    /\ last.at >= 0
    /\ last.isbn = NaN
    /\ last.result.value = None
    /\ last.answers = <<>>

\* C7: when the extracted thumbnail begins with "http:", the value returned
\* and stored begins with "https:" ("http://x/y.jpg" gives "https://x/y.jpg");
\* no returned or stored URL begins with "http:".
C7_SecureScheme ==
    /\ (last.result.outcome = "return" /\ last.result.value.t = "str")
       => ~BeginsWith(last.result.value.s, <<"h","t","t","p",":">>)
    /\ \A i \in Identifiers :
          (cache[i].t = "entry" /\ cache[i].value.t = "str")
          => ~BeginsWith(cache[i].value.s, <<"h","t","t","p",":">>)
    /\ (HasFirstThumbnail(last) /\ BeginsWith(FirstThumbnail(last), <<"h","t","t","p",":">>))
       => /\ last.result.outcome = "return"
          /\ last.result.value.t = "str"
          /\ BeginsWith(last.result.value.s, <<"h","t","t","p","s",":">>)
          /\ cache[last.isbn] = [t |-> "entry", value |-> last.result.value, stored |-> last.at]
    /\ (HasFirstThumbnail(last)
           /\ FirstThumbnail(last) = <<"h","t","t","p",":","/","/","x","/","y",".","j","p","g">>)
       => last.result.value = Str(<<"h","t","t","p","s",":","/","/","x","/","y",".","j","p","g">>)

\* identifier "123", thumbnail "http://x/y.jpg", returned "https://x/y.jpg"
C7_Witness ==
    /\ last.isbn = Str(<<"1","2","3">>)
    /\ HasFirstThumbnail(last)
    /\ FirstThumbnail(last) = <<"h","t","t","p",":","/","/","x","/","y",".","j","p","g">>
    /\ last.result.value = Str(<<"h","t","t","p","s",":","/","/","x","/","y",".","j","p","g">>)

\* the call received a 200 answer with an "items" list
HasItems(c) ==
    /\ Len(c.answers) = 1
    /\ c.answers[1].received
    /\ c.answers[1].status_code = 200
    /\ c.answers[1].payload.json
    /\ c.answers[1].payload.hasItems

ItemsOf(c) == c.answers[1].payload.items

HasImageLink(item) == item.volumeInfo /\ item.imageLinks /\ item.thumbnail.t = "str"

\* an image link that holds a URL
HasCoverLink(item) == HasImageLink(item) /\ item.thumbnail.s # <<>>

\* C8 as stated: a 200 answer with an item that has an image link, at any
\* position of the list, gives a non-null cover URL taken from such an item
\* (stated of the calls that return, raising calls being the matter of C3).
C8_AnyItemWithLink ==
    (HasItems(last) /\ last.result.outcome = "return"
        /\ \E k \in 1..Len(ItemsOf(last)) : HasCoverLink(ItemsOf(last)[k]))
    => /\ last.result.value.t = "str"
       /\ \E k \in 1..Len(ItemsOf(last)) :
             /\ HasCoverLink(ItemsOf(last)[k])
             /\ \/ last.result.value.s = ItemsOf(last)[k].thumbnail.s
                \/ BeginsWith(ItemsOf(last)[k].thumbnail.s, <<"h","t","t","p",":">>)

\* C8 amended: a 200 answer whose first item has an image link gives that
\* item's thumbnail, non-null, as it is or with its scheme made secure; when
\* the first item has volume information and no image link the call returns
\* null, whatever the later items hold.
C8_FirstItemWithLink ==
    /\ (HasItems(last) /\ Len(ItemsOf(last)) >= 1 /\ HasImageLink(ItemsOf(last)[1]))
       => /\ last.result.outcome = "return"
          /\ last.result.value.t = "str"
          /\ \/ last.result.value.s = ItemsOf(last)[1].thumbnail.s
             \/ /\ BeginsWith(ItemsOf(last)[1].thumbnail.s, <<"h","t","t","p",":">>)
                /\ BeginsWith(last.result.value.s, <<"h","t","t","p","s",":">>)
    /\ (HasItems(last) /\ Len(ItemsOf(last)) >= 1
           /\ ItemsOf(last)[1].volumeInfo /\ ~HasImageLink(ItemsOf(last)[1]))
       => last.result = [outcome |-> "return", value |-> None, requests |-> 1]

\* two items, the first with an image link and the second without: the first one's URL
C8_Witness ==
    /\ HasItems(last)
    /\ Len(ItemsOf(last)) = 2
    /\ HasImageLink(ItemsOf(last)[1])
    /\ ~HasImageLink(ItemsOf(last)[2])
    /\ last.result.value = Str(<<"h","t","t","p","s",":","/","/","x","/","z",".","j","p","g">>)

\* C10: a thumbnail u that begins with "http:" resolves to "https:" followed
\* by u without its leading "http:", later occurrences of "http:" left as they
\* are; any other thumbnail resolves to itself.
C10_OnlyPrefixRewritten ==
    HasFirstThumbnail(last)
    => last.result.value =
          Str(IF BeginsWith(FirstThumbnail(last), <<"h","t","t","p",":">>)
              THEN <<"h","t","t","p","s",":">>
                   \o SubSeq(FirstThumbnail(last), 6, Len(FirstThumbnail(last)))
              ELSE FirstThumbnail(last))

\* the placeholder image of a book without a cover
NoCover == Str(<<"h","t","t","p","s",":","/","/","v","i","a",".","p","l","a","c","e","h","o","l","d","e","r",".","c","o","m","/","1","2","0","x","1","8","0",".","p","n","g","?","t","e","x","t","=","N","o","+","C","o","v","e","r">>)

\* C6 as stated: the shelf handed to the display has the length of the input,
\* and its k-th element is the value get_book_cover gave for the k-th
\* identifier, or the placeholder when that value is null.
C6_ShapeNullOnly ==
    pc = "shown"
    => /\ Len(shelf) = Len(book_isbns)
       /\ Len(cover_urls) = Len(book_isbns)
       /\ \A k \in 1..Len(book_isbns) :
             shelf[k] = IF cover_urls[k] = None THEN NoCover ELSE cover_urls[k]

\* C6 amended: as stated, the placeholder standing for a value that is null
\* or the empty string. The k-th value is the one stored for the k-th
\* identifier, so equal identifiers give equal elements.
C6_ShapePreserved ==
    pc = "shown"
    => /\ Len(shelf) = Len(book_isbns)
       /\ Len(cover_urls) = Len(book_isbns)
       /\ \A k \in 1..Len(book_isbns) :
             /\ cache[book_isbns[k]].t = "entry"
             /\ cover_urls[k] = cache[book_isbns[k]].value
             /\ shelf[k] = IF cover_urls[k] = None \/ cover_urls[k] = Str(<<>>)
                           THEN NoCover ELSE cover_urls[k]

\* a shelf of two: a cover, then the placeholder of a null lookup
C6_Witness ==
    /\ pc = "shown"
    /\ Len(book_isbns) = 2
    /\ book_isbns[1] # book_isbns[2]
    /\ cover_urls[1].t = "str" /\ cover_urls[1] # Str(<<>>)
    /\ shelf[1] = cover_urls[1]
    /\ cover_urls[2] = None
    /\ shelf[2] = NoCover

Dated(d) == {i \in 1..Len(d) : d[i].last_date_read.t = "date"}

YearsRead(d) == {Num(d[i].last_date_read.year) : i \in Dated(d)}

RECURSIVE SumSizes(_)
SumSizes(g) == IF g = <<>> THEN 0 ELSE Head(g)[2] + SumSizes(Tail(g))

Elements(s) == {s[k] : k \in 1..Len(s)}

\* C9: the options of both year selectors, the books-per-year counts and the
\* books-per-month counts come from the rows that have a completion date
\* only: the options are the years of the dated rows, each count counts dated
\* rows, the per-year counts sum to the number of dated rows, and the script
\* goes on to its end whatever rows are undated.
C9_UndatedExcluded ==
    /\ line \in {"105", "108", "172", "192"}
       => /\ years[1] = ALL_YEARS
          /\ Elements(Tail(years)) = YearsRead(data)
          /\ Len(years) = 1 + Cardinality(YearsRead(data))
    /\ line \in {"197", "201", "done"}
       => /\ Elements(years) = YearsRead(data)
          /\ Len(years) = Cardinality(YearsRead(data))
    /\ (line \in {"172", "192"} /\ selected_year # ALL_YEARS)
       => filtered_data = {i \in Dated(data) : Num(data[i].last_date_read.year) = selected_year}
    /\ line \in {"192", "197", "201", "done"}
       => /\ {books_per_year[k][1] : k \in 1..Len(books_per_year)} = YearsRead(data)
          /\ Len(books_per_year) = Cardinality(YearsRead(data))
          /\ \A k \in 1..Len(books_per_year) :
                books_per_year[k][2] =
                   Cardinality({i \in Dated(data) :
                                   Num(data[i].last_date_read.year) = books_per_year[k][1]})
          /\ SumSizes(books_per_year) = Cardinality(Dated(data))
    /\ line = "done"
       => /\ \A k \in 1..Len(books_per_month) :
                /\ books_per_month[k][1].t = "num"
                /\ books_per_month[k][2] =
                      Cardinality({i \in Dated(data) :
                          /\ Num(data[i].last_date_read.year) = selected_year
                          /\ Num(data[i].last_date_read.month) = books_per_month[k][1]})
          /\ SumSizes(books_per_month) =
                Cardinality({i \in Dated(data) :
                                Num(data[i].last_date_read.year) = selected_year})
    /\ line # "done" => ENABLED NextDash

\* the script ended on a dataset with an undated row among dated ones
C9_Witness ==
    /\ line = "done"
    /\ Dated(data) # {}
    /\ Dated(data) # 1..Len(data)
    /\ SumSizes(books_per_year) = Cardinality(Dated(data))
    /\ books_per_month # <<>>

====
